---- MODULE Spec2Model ----
(***************************************************************************)
(* The vsphere_vapp_container and vsphere_vapp_entity resources of the     *)
(* vSphere Terraform provider, and the vappcontainer helper package.       *)
(*                                                                         *)
(* The remote vSphere inventory is the environment: a set of managed       *)
(* objects, a parent relation, and for every vApp its name, its resource   *)
(* configuration and its EntityConfig list.  Every CRUD handler is one     *)
(* action; the handler itself is an operator from the resource data it is  *)
(* given and the injected fault to its outcome (the resource data it       *)
(* leaves, the error it returns, the remote steps it issued, and the       *)
(* request it made the server apply).                                      *)
(*                                                                         *)
(* Strings that the code takes apart (managed object reference values,     *)
(* resource IDs) are sequences of one-character strings.  A Go int is the  *)
(* record [hi, lo] standing for hi * 2^32 + lo with lo a signed 32-bit     *)
(* word, so that the conversion int32(x) keeps lo and drops hi.            *)
(***************************************************************************)
EXTENDS Integers, Sequences, FiniteSets, TLC

VARIABLES inv, parent, vappName, vappCfg, entityConfig, nextVApp, de, other, dc, run, last

vars == <<inv, parent, vappName, vappCfg, entityConfig, nextVApp, de, other, dc, run, last>>

\* Most EntityConfig entries the inventory holds, over all vApps.
MaxEntities == 2

\* Most vApps the server ever allocates a reference value for.
MaxVApps == 3

---------------------------------------------------------------------------
(* Values *)

None == <<>>

NoErr == <<>>

ErrFault == <<"fault">>

ErrNotFound == <<"ManagedObjectNotFound">>

ErrUUIDNotFound == <<"virtual machine with UUID not found">>

ErrPanic == <<"panic: index out of range">>

Digits == <<"1", "2", "3", "4", "5", "6", "7", "8", "9">>

VAppValue(i) == <<"a", Digits[i]>>

VAppValues == {VAppValue(i) : i \in 1..MaxVApps}

VMValues == {<<"v">>, <<"w">>}

PoolValues == {<<"r">>, <<"p">>}

AllValues == VAppValues \cup VMValues \cup PoolValues

\* A value that names no object of the inventory.
Dangling == <<"z">>

TypeOf(v) == IF v \in VMValues THEN "VirtualMachine" ELSE IF v \in PoolValues THEN "ResourcePool" ELSE "VirtualApp"

Ref(v) == [Type |-> TypeOf(v), Value |-> v]

\* The BIOS UUID of a virtual machine, the ID of a vsphere_virtual_machine.
UuidOf(v) == <<"u">> \o v

I64(h, l) == [hi |-> h, lo |-> l]

\* int32(x) of a Go int x
ToInt32(x) == x.lo

\* int(n) of an int32 n, as d.Set stores it
FromInt32(n) == I64(0, n)

\* Sprintf with its two arguments in the wrong order
SprintfSwapped(a, b) == b \o <<":">> \o a

\* fmt.Sprintf("%s:%s", a, b)
Sprintf(a, b) == a \o <<":">> \o b

RECURSIVE Index(_, _, _)
\* strings.Index from position i: the first position of sep in s, 0 when none
Index(s, sep, i) == IF i > Len(s) THEN 0 ELSE IF s[i] = sep THEN i ELSE Index(s, sep, i + 1)

\* A split at the last separator instead of the first
SplitAtLast(s, sep) ==
    LET ks == {i \in 1..Len(s) : s[i] = sep}
    IN  IF ks = {} THEN <<s>>
        ELSE LET k == CHOOSE i \in ks : \A j \in ks : j <= i
             IN  <<SubSeq(s, 1, k - 1), SubSeq(s, k + 1, Len(s))>>

\* strings.SplitN(s, sep, 2)
SplitN2(s, sep) == LET k == Index(s, sep, 1) IN IF k = 0 THEN <<s>> ELSE <<SubSeq(s, 1, k - 1), SubSeq(s, k + 1, Len(s))>>

---------------------------------------------------------------------------
(* Remote steps.  f is the number of the remote step of the handler at     *)
(* which a transport fault is injected (0: none), i the step's number.     *)

Call(step, err) == [step |-> step, err |-> err]

\* A call named step is among the calls of a run
Issued(calls, step) == \E i \in DOMAIN calls : calls[i].step = step

Inject(f, i, natural) == IF f = i THEN ErrFault ELSE natural

\* viapi.ValidateVirtualCenter through the client accessor
resourceVSphereVAppContainerClient(f, i) == Inject(f, i, NoErr)

\* finder.ObjectReference for the reference (VirtualApp, id)
FromID(id, f, i) == Inject(f, i, IF id \in inv /\ id \in VAppValues THEN NoErr ELSE ErrNotFound)

\* What the property collector returns for a vApp
VAppProps(c) ==
    [Self |-> Ref(c),
     Name |-> vappName[c],
     Parent |-> parent[c],
     Config |-> vappCfg[c],
     Vm |-> {o \in inv \cap VMValues : parent[o] = c},
     ResourcePool |-> {o \in inv \cap (PoolValues \cup VAppValues) : parent[o] = c},
     VAppConfig |-> [EntityConfig |-> entityConfig[c]]]

\* The property collector retrieving the properties of the vApp c
Properties(c, f, i) == Inject(f, i, IF c \in inv THEN NoErr ELSE ErrNotFound)

RECURSIVE EntityScan(_, _, _)
EntityScan(key, ec, i) == IF i > Len(ec) THEN <<>> ELSE IF ec[i].Key.Value = key THEN <<ec[i]>> ELSE EntityScan(key, ec, i + 1)

\* EntityFromKey with the scan keeping the last match instead of returning at the first
EntityFromKeyLast(key, c) ==
    LET ec == c.VAppConfig.EntityConfig
        hits == {i \in DOMAIN ec : ec[i].Key.Value = key}
    IN  IF hits = {} THEN <<>> ELSE <<ec[CHOOSE i \in hits : \A j \in hits : j <= i]>>

\* nil is <<>>, a found entry e is <<e>>
EntityFromKey(key, c) == EntityScan(key, c.VAppConfig.EntityConfig, 1)

\* HasChildren with the child resource pools forgotten
HasChildrenVmOnly(va, f, i) ==
    LET err == Properties(va, f, i)
        props == VAppProps(va)
    IN  IF err # NoErr THEN [ne |-> FALSE, err |-> err]
        ELSE IF Cardinality(props.Vm) > 0 THEN [ne |-> TRUE, err |-> NoErr]
        ELSE [ne |-> FALSE, err |-> NoErr]

HasChildren(va, f, i) ==
    LET err == Properties(va, f, i)
        props == VAppProps(va)
    IN  IF err # NoErr THEN [ne |-> FALSE, err |-> err]
        ELSE IF Cardinality(props.Vm) > 0 \/ Cardinality(props.ResourcePool) > 0 THEN [ne |-> TRUE, err |-> NoErr]
        ELSE [ne |-> FALSE, err |-> NoErr]

\* virtualmachine.FromUUID: the virtual machine whose UUID is uuid
FromUUID(uuid, f, i) ==
    LET found == {v \in inv \cap VMValues : UuidOf(v) = uuid}
    IN  IF f = i THEN [vm |-> None, err |-> ErrFault]
        ELSE IF found = {} THEN [vm |-> None, err |-> ErrUUIDNotFound]
        ELSE [vm |-> CHOOSE v \in found : TRUE, err |-> NoErr]

\* virtualmachine.Properties
VMProperties(vm, f, i) == Inject(f, i, NoErr)

\* vappcontainer.Update: va.UpdateConfig(ctx, spec)
Update(va, spec, f, i) == Inject(f, i, IF va \in inv THEN NoErr ELSE ErrNotFound)

\* The server applying an accepted UpdateConfig.  The EntityConfig field is
\* omitted from the request when the list is empty, and an omitted field
\* leaves the vApp's own list as it is.
ServerUpdateConfig(va, spec) == IF spec.EntityConfig = <<>> THEN entityConfig ELSE [entityConfig EXCEPT ![va] = spec.EntityConfig]

\* ApplyTags with the error of the tags client dropped
ApplyTagsErrDropped(d, f, i) ==
    LET e1 == Inject(f, i, NoErr)
        e2 == Inject(f, i + 1, NoErr)
    IN  IF ~d.tags THEN [err |-> NoErr, calls |-> <<>>]
        ELSE [err |-> e2, calls |-> <<Call("TagsClient", e1), Call("processTagDiff", e2)>>]

\* tagsClientIfDefined and processTagDiff
resourceVSphereVAppContainerApplyTags(d, f, i) ==
    LET e1 == Inject(f, i, NoErr)
        e2 == Inject(f, i + 1, NoErr)
    IN  IF ~d.tags THEN [err |-> NoErr, calls |-> <<>>]
        ELSE IF e1 # NoErr THEN [err |-> e1, calls |-> <<Call("TagsClient", e1)>>]
        ELSE [err |-> e2, calls |-> <<Call("TagsClient", e1), Call("processTagDiff", e2)>>]

---------------------------------------------------------------------------
(* vsphere_vapp_entity *)

\* Defaults of the schema; an integer attribute without one reads as 0.
SchemaDefault ==
    [start_action |-> "powerOn",
     start_delay |-> I64(0, 0),
     stop_action |-> "powerOff",
     stop_delay |-> I64(0, 0),
     start_order |-> I64(0, 1),
     wait_for_guest |-> FALSE]

EntityAttrs == DOMAIN SchemaDefault

\* d.Get(k): an attribute is <<>> when the configuration omits it, else <<value>>
Get(d, k) == IF d[k] = <<>> THEN SchemaDefault[k] ELSE d[k][1]

\* Configurations of the six optional attributes.  CfgWide sets start_delay to 2^32.
CfgOmitted == [start_action |-> <<>>, start_delay |-> <<>>, stop_action |-> <<>>, stop_delay |-> <<>>, start_order |-> <<>>, wait_for_guest |-> <<>>, tags |-> FALSE]

CfgCustom == [start_action |-> <<"none">>, start_delay |-> <<I64(0, 30)>>, stop_action |-> <<"guestShutdown">>, stop_delay |-> <<I64(0, 60)>>, start_order |-> <<I64(0, 2)>>, wait_for_guest |-> <<TRUE>>, tags |-> TRUE]

CfgWide == [CfgOmitted EXCEPT !.start_delay = <<I64(1, 0)>>]

EntityCfgs == {CfgOmitted, CfgCustom, CfgWide}

InitVApps == {VAppValue(1), VAppValue(2)}

ContainerIdInputs == InitVApps \cup {Dangling}

TargetIdInputs == {UuidOf(v) : v \in VMValues} \cup {VAppValue(2)}

NewEntityData(cid, tid, cfg) == [id |-> <<>>, container_id |-> cid, target_id |-> tid] @@ cfg

NoSpec == <<>>

Ret(d, err, calls, sent) == [d |-> d, err |-> err, calls |-> calls, sent |-> sent]

\* A handler's calls on its container are separate requests, and the
\* inventory may change between two of them.  o holds what the lookup
\* (vappcontainer.FromID) and the property read (vappcontainer.Properties)
\* answered when they were made; the last call on the container, the
\* reconfiguration, meets the inventory as it is when the handler ends.
NoAnswers == [FromID |-> NoErr, Properties |-> NoErr, mo |-> [VAppConfig |-> [EntityConfig |-> <<>>]]]

\* The answers of a lookup and a property read of c made now
Answers(c) ==
    [FromID |-> FromID(c, 0, 1),
     Properties |-> Properties(c, 0, 1),
     mo |-> IF c \in inv /\ c \in VAppValues THEN VAppProps(c) ELSE NoAnswers.mo]

\* o with the answer of the k-th call on c, made now
Answer(o, k, c) ==
    IF k = 1 THEN [o EXCEPT !.FromID = Answers(c).FromID]
    ELSE [o EXCEPT !.Properties = Answers(c).Properties, !.mo = Answers(c).mo]

\* return nil, nil: no resource and no error
resourceVSphereVAppEntityImport(d) == [d |-> d, err |-> NoErr, calls |-> <<>>, sent |-> NoSpec, res |-> <<>>]

\* Create with the new entry put before the entries read
EntityCreatePrepends(d, f, o) ==
    LET e1 == resourceVSphereVAppContainerClient(f, 1)
        cid == d.container_id
        e2 == Inject(f, 2, o.FromID)
        e3 == Inject(f, 3, o.Properties)
        mo == o.mo
        target == FromUUID(d.target_id, f, 4)
        e5 == VMProperties(target.vm, f, 5)
        d1 == [d EXCEPT !.id = Sprintf(cid, Ref(target.vm).Value)]
        mor == Ref(target.vm)
        entity == [Key |-> mor,
                   StartOrder |-> ToInt32(Get(d, "start_order")),
                   StartAction |-> Get(d, "start_action"),
                   StartDelay |-> ToInt32(Get(d, "start_delay")),
                   StopAction |-> Get(d, "stop_action"),
                   StopDelay |-> ToInt32(Get(d, "stop_delay")),
                   WaitingForGuest |-> <<Get(d, "wait_for_guest")>>]
        updateSpec == [EntityConfig |-> <<entity>> \o mo.VAppConfig.EntityConfig]
        e6 == Update(cid, updateSpec, f, 6)
        c1 == <<Call("ValidateVirtualCenter", e1)>>
        c2 == Append(c1, Call("FromID", e2))
        c3 == Append(c2, Call("Properties", e3))
        c4 == Append(c3, Call("FromUUID", target.err))
        c5 == Append(c4, Call("VMProperties", e5))
        c6 == Append(c5, Call("UpdateConfig", e6))
    IN  IF e1 # NoErr THEN Ret(d, e1, c1, NoSpec)
        ELSE IF e2 # NoErr THEN Ret(d, e2, c2, NoSpec)
        ELSE IF e3 # NoErr THEN Ret(d, e3, c3, NoSpec)
        ELSE IF target.err # NoErr THEN Ret(d, target.err, c4, NoSpec)
        ELSE IF e5 # NoErr THEN Ret(d, e5, c5, NoSpec)
        ELSE IF e6 # NoErr THEN Ret(d1, e6, c6, <<updateSpec>>)
        ELSE Ret(d1, NoErr, c6, <<updateSpec>>)

resourceVSphereVAppEntityCreate(d, f, o) ==
    LET e1 == resourceVSphereVAppContainerClient(f, 1)
        cid == d.container_id
        e2 == Inject(f, 2, o.FromID)
        e3 == Inject(f, 3, o.Properties)
        mo == o.mo
        target == FromUUID(d.target_id, f, 4)
        e5 == VMProperties(target.vm, f, 5)
        d1 == [d EXCEPT !.id = Sprintf(cid, Ref(target.vm).Value)]
        mor == Ref(target.vm)
        entity == [Key |-> mor,
                   StartOrder |-> ToInt32(Get(d, "start_order")),
                   StartAction |-> Get(d, "start_action"),
                   StartDelay |-> ToInt32(Get(d, "start_delay")),
                   StopAction |-> Get(d, "stop_action"),
                   StopDelay |-> ToInt32(Get(d, "stop_delay")),
                   WaitingForGuest |-> <<Get(d, "wait_for_guest")>>]
        updateSpec == [EntityConfig |-> Append(mo.VAppConfig.EntityConfig, entity)]
        e6 == Update(cid, updateSpec, f, 6)
        c1 == <<Call("ValidateVirtualCenter", e1)>>
        c2 == Append(c1, Call("FromID", e2))
        c3 == Append(c2, Call("Properties", e3))
        c4 == Append(c3, Call("FromUUID", target.err))
        c5 == Append(c4, Call("VMProperties", e5))
        c6 == Append(c5, Call("UpdateConfig", e6))
    IN  IF e1 # NoErr THEN Ret(d, e1, c1, NoSpec)
        ELSE IF e2 # NoErr THEN Ret(d, e2, c2, NoSpec)
        ELSE IF e3 # NoErr THEN Ret(d, e3, c3, NoSpec)
        ELSE IF target.err # NoErr THEN Ret(d, target.err, c4, NoSpec)
        ELSE IF e5 # NoErr THEN Ret(d, e5, c5, NoSpec)
        ELSE IF e6 # NoErr THEN Ret(d1, e6, c6, <<updateSpec>>)
        ELSE Ret(d1, NoErr, c6, <<updateSpec>>)

\* The remote steps of Find are numbered i and i + 1.
resourceVSphereVAppEntityFind(d, f, i, o) ==
    LET parts == SplitN2(d.id, ":")
        cid == parts[1]
        eid == parts[2]
        e1 == Inject(f, i, o.FromID)
        e2 == Inject(f, i + 1, o.Properties)
        c1 == <<Call("FromID", e1)>>
        c2 == Append(c1, Call("Properties", e2))
    IN  IF Len(parts) < 2 THEN [entity |-> <<>>, err |-> ErrPanic, calls |-> <<>>]
        ELSE IF e1 # NoErr THEN [entity |-> <<>>, err |-> e1, calls |-> c1]
        ELSE IF e2 # NoErr THEN [entity |-> <<>>, err |-> e2, calls |-> c2]
        ELSE [entity |-> EntityFromKey(eid, o.mo), err |-> NoErr, calls |-> c2]

\* structure.SetBatch of the six attributes; d.Set dereferences a pointer
\* and stores an int32 as an int.
flattenVAppEntityConfigSpec(d, obj) ==
    [d EXCEPT !.start_action = <<obj.StartAction>>,
              !.start_delay = <<FromInt32(obj.StartDelay)>>,
              !.start_order = <<FromInt32(obj.StartOrder)>>,
              !.stop_action = <<obj.StopAction>>,
              !.stop_delay = <<FromInt32(obj.StopDelay)>>,
              !.wait_for_guest = obj.WaitingForGuest]

\* Read with the ID kept when the entity is not found
EntityReadKeepsID(d, f, o) ==
    LET e1 == resourceVSphereVAppContainerClient(f, 1)
        c1 == <<Call("ValidateVirtualCenter", e1)>>
        r == resourceVSphereVAppEntityFind(d, f, 2, o)
    IN  IF e1 # NoErr THEN Ret(d, e1, c1, NoSpec)
        ELSE IF r.err # NoErr THEN Ret(d, r.err, c1 \o r.calls, NoSpec)
        ELSE IF r.entity = <<>> THEN Ret(d, NoErr, c1 \o r.calls, NoSpec)
        ELSE Ret(flattenVAppEntityConfigSpec(d, r.entity[1]), NoErr, c1 \o r.calls, NoSpec)

resourceVSphereVAppEntityRead(d, f, o) ==
    LET e1 == resourceVSphereVAppContainerClient(f, 1)
        c1 == <<Call("ValidateVirtualCenter", e1)>>
        r == resourceVSphereVAppEntityFind(d, f, 2, o)
        d1 == [d EXCEPT !.target_id = d.target_id]
    IN  IF e1 # NoErr THEN Ret(d, e1, c1, NoSpec)
        ELSE IF r.err # NoErr THEN Ret(d1, r.err, c1 \o r.calls, NoSpec)
        ELSE IF r.entity = <<>> THEN Ret([d1 EXCEPT !.id = <<>>], NoErr, c1 \o r.calls, NoSpec)
        ELSE Ret(flattenVAppEntityConfigSpec(d1, r.entity[1]), NoErr, c1 \o r.calls, NoSpec)

\* The entity schema has no parent_resource_pool_id, so GetChange gives
\* (nil, nil) and the move is never taken.
resourceVSphereVAppEntityUpdate(d, f) ==
    LET e1 == resourceVSphereVAppContainerClient(f, 1)
        va == d.id
        e2 == FromID(va, f, 2)
        tags == resourceVSphereVAppContainerApplyTags(d, f, 3)
        vaSpec == [EntityConfig |-> <<>>]
        e5 == Update(va, vaSpec, f, 5)
        c1 == <<Call("ValidateVirtualCenter", e1)>>
        c2 == Append(c1, Call("FromID", e2))
        c4 == c2 \o tags.calls
        c5 == Append(c4, Call("UpdateConfig", e5))
    IN  IF e1 # NoErr THEN Ret(d, e1, c1, NoSpec)
        ELSE IF e2 # NoErr THEN Ret(d, e2, c2, NoSpec)
        ELSE IF tags.err # NoErr THEN Ret(d, tags.err, c4, NoSpec)
        ELSE IF e5 # NoErr THEN Ret(d, e5, c5, <<vaSpec>>)
        ELSE Ret(d, NoErr, c5, <<vaSpec>>)

resourceVSphereVAppEntityDelete(d, f, o) ==
    LET e1 == resourceVSphereVAppContainerClient(f, 1)
        vc == d.container_id
        e2 == Inject(f, 2, o.FromID)
        e3 == Inject(f, 3, o.Properties)
        vcp == o.mo
        vm == FromUUID(d.target_id, f, 4)
        e5 == VMProperties(vm.vm, f, 5)
        vmo == Ref(vm.vm)
        el == SelectSeq(vcp.VAppConfig.EntityConfig, LAMBDA e : e.Key # vmo)
        updateSpec == [EntityConfig |-> el]
        e6 == Update(vc, updateSpec, f, 6)
        c1 == <<Call("ValidateVirtualCenter", e1)>>
        c2 == Append(c1, Call("FromID", e2))
        c3 == Append(c2, Call("Properties", e3))
        c4 == Append(c3, Call("FromUUID", vm.err))
        c5 == Append(c4, Call("VMProperties", e5))
        c6 == Append(c5, Call("UpdateConfig", e6))
    IN  IF e1 # NoErr THEN Ret(d, e1, c1, NoSpec)
        ELSE IF e2 # NoErr THEN Ret(d, e2, c2, NoSpec)
        ELSE IF e3 # NoErr THEN Ret(d, e3, c3, NoSpec)
        ELSE IF vm.err # NoErr THEN Ret(d, vm.err, c4, NoSpec)
        ELSE IF e5 # NoErr THEN Ret(d, e5, c5, NoSpec)
        ELSE IF e6 # NoErr THEN Ret(d, e6, c6, <<updateSpec>>)
        ELSE Ret(d, NoErr, c6, <<updateSpec>>)

---------------------------------------------------------------------------
(* vsphere_vapp_container *)

ErrChildren == <<"still has children resources">>

ErrSetResourcePoolID == <<"resource_pool_id: expected type 'string', got unconvertible type">>

ErrPathNotFound == <<"vapp not found">>

ErrPathMultiple == <<"path resolves to multiple vapps">>

ErrMove == <<"InvalidArgument">>

\* fmt.Errorf("error checking contents of resource pool: %s", err)
Errorf(err) == <<"error checking contents of resource pool">> \o err

\* Two configurations of the name and the allocation attributes.
CfgA ==
    [name |-> <<"x">>,
     cpu_share_level |-> "normal", cpu_shares |-> 4000, cpu_reservation |-> 0, cpu_expandable |-> TRUE, cpu_limit |-> -1,
     memory_share_level |-> "normal", memory_shares |-> 163840, memory_reservation |-> 0, memory_expandable |-> TRUE, memory_limit |-> -1]

CfgB ==
    [name |-> <<"y">>,
     cpu_share_level |-> "custom", cpu_shares |-> 2000, cpu_reservation |-> 100, cpu_expandable |-> FALSE, cpu_limit |-> 8000,
     memory_share_level |-> "high", memory_shares |-> 327680, memory_reservation |-> 512, memory_expandable |-> TRUE, memory_limit |-> 4096]

ContainerCfgs == {CfgA, CfgB}

NewContainerData(cfg, prp, pf, tags) == [id |-> <<>>, parent_resource_pool_id |-> prp, parent_folder |-> pf, resource_pool_id |-> <<>>, tags |-> tags] @@ cfg

NoContainer == NewContainerData(CfgA, <<>>, <<>>, FALSE)

\* expandResourcePoolConfigSpec: the allocation attributes as a ResourceConfigSpec
expandVAppContainerConfigSpec(d) ==
    [CpuAllocation |-> [Reservation |-> d.cpu_reservation, ExpandableReservation |-> d.cpu_expandable, Limit |-> d.cpu_limit,
                        Shares |-> [Shares |-> d.cpu_shares, Level |-> d.cpu_share_level]],
     MemoryAllocation |-> [Reservation |-> d.memory_reservation, ExpandableReservation |-> d.memory_expandable, Limit |-> d.memory_limit,
                           Shares |-> [Shares |-> d.memory_shares, Level |-> d.memory_share_level]]]

flattenVAppContainerCPUAllocation(d, obj) ==
    [d EXCEPT !.cpu_reservation = obj.Reservation,
              !.cpu_expandable = obj.ExpandableReservation,
              !.cpu_limit = obj.Limit,
              !.cpu_shares = obj.Shares.Shares,
              !.cpu_share_level = obj.Shares.Level]

flattenVAppContainerMemoryAllocation(d, obj) ==
    [d EXCEPT !.memory_reservation = obj.Reservation,
              !.memory_expandable = obj.ExpandableReservation,
              !.memory_limit = obj.Limit,
              !.memory_shares = obj.Shares.Shares,
              !.memory_share_level = obj.Shares.Level]

flattenVAppContainerConfigSpec(d, obj) == flattenVAppContainerCPUAllocation(flattenVAppContainerMemoryAllocation(d, obj.MemoryAllocation), obj.CpuAllocation)

\* resourcepool.FromID: finder.ObjectReference for the reference (ResourcePool, id)
PoolFromID(id, f, i) == Inject(f, i, IF id \in inv /\ id \in PoolValues THEN NoErr ELSE ErrNotFound)

\* finder.VirtualApp(ctx, name): the one vApp the inventory path names
FromPath(name, f, i) ==
    LET found == {c \in inv \cap VAppValues : vappName[c] = name}
    IN  IF f = i THEN [va |-> None, err |-> ErrFault]
        ELSE IF found = {} THEN [va |-> None, err |-> ErrPathNotFound]
        ELSE IF Cardinality(found) > 1 THEN [va |-> None, err |-> ErrPathMultiple]
        ELSE [va |-> CHOOSE c \in found : TRUE, err |-> NoErr]

RECURSIVE IsUnder(_, _, _)
\* whether o is y or lies below y in the inventory; n bounds the climb
IsUnder(o, y, n) == IF o = y THEN TRUE ELSE IF n = 0 \/ o = None \/ o \notin AllValues THEN FALSE ELSE IsUnder(parent[o], y, n - 1)

\* resourcepool.MoveIntoResourcePool(p, ref): the server refuses a move of an
\* object below itself
MoveIntoResourcePool(p, va, f, i) == Inject(f, i, IF IsUnder(p, va, Cardinality(AllValues)) THEN ErrMove ELSE NoErr)

\* vappcontainer.Create: prp.CreateVApp
Create(prp, name, f, i) == Inject(f, i, NoErr)

\* vappcontainer.Delete: va.Destroy and task.Wait, steps i and i + 1
Delete(va, f, i) ==
    LET e1 == Inject(f, i, IF va \in inv THEN NoErr ELSE ErrNotFound)
        e2 == Inject(f, i + 1, NoErr)
    IN  IF e1 # NoErr THEN [err |-> e1, calls |-> <<Call("Destroy", e1)>>]
        ELSE [err |-> e2, calls |-> <<Call("Destroy", e1), Call("task.Wait", e2)>>]

\* resourceVSphereVAppContainerReadTags; tc: the connection has a tags client.
\* The error of TagsClient() is discarded: a call that fails leaves the
\* client nil, and the tag read is skipped as on a connection without tags.
resourceVSphereVAppContainerReadTags(tc, f, i) ==
    LET e1 == Inject(f, i, NoErr)
        e2 == Inject(f, i + 1, NoErr)
        c1 == <<Call("TagsClient", e1)>>
    IN  IF tc /\ e1 = NoErr THEN [err |-> e2, calls |-> Append(c1, Call("readTagsForResource", e2))]
        ELSE [err |-> NoErr, calls |-> c1]

\* ValidateEmpty that returns the error of the check and nothing else
ValidateEmptyErrOnly(va, f, i) ==
    LET r == HasChildren(va, f, i)
    IN  IF r.err # NoErr THEN Errorf(r.err) ELSE NoErr

resourceVSphereVAppContainerValidateEmpty(va, f, i) ==
    LET r == HasChildren(va, f, i)
    IN  IF r.err # NoErr THEN Errorf(r.err)
        ELSE IF r.ne THEN ErrChildren
        ELSE NoErr

NoFx == [created |-> <<>>, moved |-> <<>>, destroyed |-> <<>>]

RetC(d, err, calls, sent, fx) == [d |-> d, err |-> err, calls |-> calls, sent |-> sent, fx |-> fx]

resourceVSphereVAppContainerImport(d, f) ==
    LET e1 == resourceVSphereVAppContainerClient(f, 1)
        va == FromPath(d.id, f, 2)
        c1 == <<Call("ValidateVirtualCenter", e1)>>
        c2 == Append(c1, Call("FromPath", va.err))
    IN  IF e1 # NoErr THEN RetC(d, e1, c1, NoSpec, NoFx) @@ [res |-> <<>>]
        ELSE IF va.err # NoErr THEN RetC(d, va.err, c2, NoSpec, NoFx) @@ [res |-> <<>>]
        ELSE LET d1 == [d EXCEPT !.id = Ref(va.va).Value]
             IN  RetC(d1, NoErr, c2, NoSpec, NoFx) @@ [res |-> <<d1>>]

\* new: the reference value the server gives the vApp it creates
resourceVSphereVAppContainerCreate(d, new, f) ==
    LET e1 == resourceVSphereVAppContainerClient(f, 1)
        prp == d.parent_resource_pool_id
        e2 == PoolFromID(prp, f, 2)
        rpSpec == expandVAppContainerConfigSpec(d)
        e3 == Inject(f, 3, NoErr)
        e4 == Inject(f, 4, NoErr)
        e5 == Create(prp, d.name, f, 5)
        va == new
        made == [created |-> <<[va |-> va, name |-> d.name, cfg |-> rpSpec, parent |-> prp]>>, moved |-> <<>>, destroyed |-> <<>>]
        tags == resourceVSphereVAppContainerApplyTags(d, f, 6)
        c1 == <<Call("ValidateVirtualCenter", e1)>>
        c2 == Append(c1, Call("resourcepool.FromID", e2))
        c3 == IF d.parent_folder # <<>> THEN Append(c2, Call("folder.FromID", e3)) ELSE Append(c2, Call("getDatacenter", e3))
        c4 == IF d.parent_folder # <<>> THEN c3 ELSE Append(c3, Call("folder.FromPath", e4))
        c5 == Append(c4, Call("CreateVApp", e5))
        c7 == c5 \o tags.calls
    IN  IF e1 # NoErr THEN RetC(d, e1, c1, NoSpec, NoFx)
        ELSE IF e2 # NoErr THEN RetC(d, e2, c2, NoSpec, NoFx)
        ELSE IF e3 # NoErr THEN RetC(d, e3, c3, NoSpec, NoFx)
        ELSE IF d.parent_folder = <<>> /\ e4 # NoErr THEN RetC(d, e4, c4, NoSpec, NoFx)
        ELSE IF e5 # NoErr THEN RetC(d, e5, c5, NoSpec, NoFx)
        ELSE IF tags.err # NoErr THEN RetC(d, tags.err, c7, NoSpec, made)
        ELSE RetC([d EXCEPT !.id = Ref(va).Value], NoErr, c7, NoSpec, made)

\* vaProps.ResourcePool.Value selects the custom field values of the embedded
\* managed entity, a slice, which d.Set cannot store in the string attribute
\* resource_pool_id: the handler returns that error.
\* Read with a vApp that is not found treated like any other failed lookup
ContainerReadNotFoundReturned(d, tc, f) ==
    LET e1 == resourceVSphereVAppContainerClient(f, 1)
        va == d.id
        e2 == FromID(va, f, 2)
        tags == resourceVSphereVAppContainerReadTags(tc, f, 3)
        d1 == [d EXCEPT !.name = VAppProps(va).Name]
        e4 == Properties(va, f, 5)
        d2 == [d1 EXCEPT !.parent_resource_pool_id = VAppProps(va).Parent]
        c1 == <<Call("ValidateVirtualCenter", e1)>>
        c2 == Append(c1, Call("FromID", e2))
        c3 == c2 \o tags.calls
        c4 == Append(c3, Call("Properties", e4))
    IN  IF e1 # NoErr THEN RetC(d, e1, c1, NoSpec, NoFx)
        ELSE IF e2 # NoErr THEN RetC(d, e2, c2, NoSpec, NoFx)
        ELSE IF tags.err # NoErr THEN RetC(d, tags.err, c3, NoSpec, NoFx)
        ELSE IF e4 # NoErr THEN RetC(d1, e4, c4, NoSpec, NoFx)
        ELSE RetC(d2, ErrSetResourcePoolID, c4, NoSpec, NoFx)

resourceVSphereVAppContainerRead(d, tc, f) ==
    LET e1 == resourceVSphereVAppContainerClient(f, 1)
        va == d.id
        e2 == FromID(va, f, 2)
        tags == resourceVSphereVAppContainerReadTags(tc, f, 3)
        d1 == [d EXCEPT !.name = VAppProps(va).Name]
        e4 == Properties(va, f, 5)
        vaProps == VAppProps(va)
        d2 == [d1 EXCEPT !.parent_resource_pool_id = vaProps.Parent]
        c1 == <<Call("ValidateVirtualCenter", e1)>>
        c2 == Append(c1, Call("FromID", e2))
        c3 == c2 \o tags.calls
        c4 == Append(c3, Call("Properties", e4))
    IN  IF e1 # NoErr THEN RetC(d, e1, c1, NoSpec, NoFx)
        ELSE IF e2 # NoErr THEN
            IF e2 = ErrNotFound THEN RetC([d EXCEPT !.id = <<>>], NoErr, c2, NoSpec, NoFx)
            ELSE RetC(d, e2, c2, NoSpec, NoFx)
        ELSE IF tags.err # NoErr THEN RetC(d, tags.err, c3, NoSpec, NoFx)
        ELSE IF e4 # NoErr THEN RetC(d1, e4, c4, NoSpec, NoFx)
        ELSE RetC(d2, ErrSetResourcePoolID, c4, NoSpec, NoFx)

\* op: parent_resource_pool_id of the prior state; d holds the new one
resourceVSphereVAppContainerUpdate(d, op, f) ==
    LET e1 == resourceVSphereVAppContainerClient(f, 1)
        va == d.id
        e2 == FromID(va, f, 2)
        tags == resourceVSphereVAppContainerApplyTags(d, f, 3)
        np == d.parent_resource_pool_id
        e5 == FromID(np, f, 5)
        e6 == MoveIntoResourcePool(np, va, f, 6)
        moved == [created |-> <<>>, moved |-> <<[va |-> va, to |-> np]>>, destroyed |-> <<>>]
        fx == IF op # np THEN moved ELSE NoFx
        vaSpec == [EntityConfig |-> <<>>]
        e7 == Update(va, vaSpec, f, 7)
        c1 == <<Call("ValidateVirtualCenter", e1)>>
        c2 == Append(c1, Call("FromID", e2))
        c4 == c2 \o tags.calls
        c5 == Append(c4, Call("FromID", e5))
        c6 == Append(c5, Call("MoveIntoResourcePool", e6))
        c7 == Append(IF op # np THEN c6 ELSE c4, Call("UpdateConfig", e7))
    IN  IF e1 # NoErr THEN RetC(d, e1, c1, NoSpec, NoFx)
        ELSE IF e2 # NoErr THEN RetC(d, e2, c2, NoSpec, NoFx)
        ELSE IF tags.err # NoErr THEN RetC(d, tags.err, c4, NoSpec, NoFx)
        ELSE IF op # np /\ e5 # NoErr THEN RetC(d, e5, c5, NoSpec, NoFx)
        ELSE IF op # np /\ e6 # NoErr THEN RetC(d, e6, c6, NoSpec, NoFx)
        ELSE IF e7 # NoErr THEN RetC(d, e7, c7, <<vaSpec>>, fx)
        ELSE RetC(d, NoErr, c7, <<vaSpec>>, fx)

\* What the lookup and the children check of a Delete answered when they
\* were made: the lookup's error, the error of ValidateEmpty and the error
\* of the property read inside it.
NoAnswersC == [FromID |-> NoErr, ValidateEmpty |-> NoErr, Properties |-> NoErr]

\* o with the answer of the k-th call on va, made now
AnswerC(o, k, va, f) ==
    IF k = 1 THEN [o EXCEPT !.FromID = FromID(va, 0, 1)]
    ELSE [o EXCEPT !.ValidateEmpty = resourceVSphereVAppContainerValidateEmpty(va, f, 3),
                   !.Properties = HasChildren(va, f, 3).err]

\* The lookup, the children check and the Destroy are separate requests:
\* o holds what the first two answered when they were made, the Destroy
\* meets the inventory as it is when it is issued.  fx names the vApp whose
\* Destroy the server accepted.
resourceVSphereVAppContainerDelete(d, f, o) ==
    LET e1 == resourceVSphereVAppContainerClient(f, 1)
        va == d.id
        e2 == Inject(f, 2, o.FromID)
        e3 == o.ValidateEmpty
        del == Delete(va, f, 4)
        gone == [created |-> <<>>, moved |-> <<>>, destroyed |-> <<va>>]
        c1 == <<Call("ValidateVirtualCenter", e1)>>
        c2 == Append(c1, Call("FromID", e2))
        c3 == Append(c2, Call("Properties", o.Properties))
        c5 == c3 \o del.calls
    IN  IF e1 # NoErr THEN RetC(d, e1, c1, NoSpec, NoFx)
        ELSE IF e2 # NoErr THEN RetC(d, e2, c2, NoSpec, NoFx)
        ELSE IF e3 # NoErr THEN RetC(d, e3, c3, NoSpec, NoFx)
        ELSE IF del.err # NoErr THEN RetC(d, del.err, c5, NoSpec, IF del.calls[1].err = NoErr THEN gone ELSE NoFx)
        ELSE RetC(d, NoErr, c5, NoSpec, gone)

---------------------------------------------------------------------------
(* State *)

RECURSIVE SumLen(_, _)
SumLen(ec, i) == IF i > MaxVApps THEN 0 ELSE Len(ec[VAppValue(i)]) + SumLen(ec, i + 1)

TotalEntities == SumLen(entityConfig, 1)

Outcome(op, r) == [op |-> op, err |-> r.err, calls |-> r.calls, sent |-> r.sent]

\* d with the optional attributes of a changed configuration
WithCfg(d, cfg) == [k \in DOMAIN d |-> IF k \in DOMAIN cfg THEN cfg[k] ELSE d[k]]

\* Terraform keeps a resource in its state only while the resource has an ID.
NoEntity == NewEntityData(<<>>, <<>>, CfgOmitted)

Stored(d, none) == IF d.id = <<>> THEN none ELSE d

\* The first vApp holds the first virtual machine, as the vApp of the
\* acceptance test holds the virtual machine its entity names, and with it
\* the second vApp and a resource pool; the second vApp is empty; the
\* second virtual machine lies in the root resource pool.
InitParent == [o \in AllValues |-> IF o \in {VAppValue(1), <<"w">>} THEN <<"r">> ELSE IF o \in {VAppValue(2), <<"v">>, <<"p">>} THEN VAppValue(1) ELSE None]

\* A handler's run between two of its calls on the container: the handler,
\* its resource data, the answers it has got and the number of the calls it
\* has made.
NoRun == [op |-> "none", d |-> NoEntity, o |-> NoAnswers, k |-> 0]

NoRunC == [op |-> "none", d |-> NoContainer, o |-> NoAnswersC, k |-> 0]

Init ==
    /\ inv = InitVApps \cup VMValues \cup PoolValues
    /\ parent = InitParent
    /\ vappName = [c \in VAppValues |-> IF c = VAppValue(1) THEN <<"x">> ELSE IF c = VAppValue(2) THEN <<"y">> ELSE <<>>]
    /\ vappCfg = [c \in VAppValues |-> expandVAppContainerConfigSpec(CfgA)]
    /\ entityConfig = [c \in VAppValues |-> <<>>]
    /\ nextVApp = Cardinality(InitVApps) + 1
    /\ de = NoEntity
    /\ other = NoEntity
    /\ dc = NoContainer
    /\ run = [de |-> NoRun, other |-> NoRun, dc |-> NoRunC]
    /\ last = [op |-> "none", err |-> NoErr, calls |-> <<>>, sent |-> NoSpec]

\* What an accepted request of an entity handler does to the inventory
EntityEffect(va, r) == IF r.err = NoErr /\ r.sent # NoSpec THEN ServerUpdateConfig(va, r.sent[1]) ELSE entityConfig

\* The handler an in-flight run belongs to.  Terraform runs the handlers of
\* two resources at the same time; de is one entity resource of the
\* configuration and other another one, and both run the same handlers.
Handler(op, d, f, o) ==
    CASE op \in {"EntityCreate", "OtherCreate"} -> resourceVSphereVAppEntityCreate(d, f, o)
      [] op = "EntityRead" -> resourceVSphereVAppEntityRead(d, f, o)
      [] op \in {"EntityDelete", "OtherDelete"} -> resourceVSphereVAppEntityDelete(d, f, o)

\* The container a run's calls go to
ContainerOf(op, d) == IF op = "EntityRead" THEN SplitN2(d.id, ":")[1] ELSE d.container_id

\* Only the second vApp ever leaves the inventory of the entity handlers,
\* so the lookup of another container answers the same whenever it is made.
Vanishing(c) == c = VAppValue(2)

\* The run u of the resource s goes on from the calls it has made (u.k) to
\* its next call on the container and through the calls behind it that do
\* not touch the container; f is the call of these a fault hits (0: none).
\* The lookup is call 2, the property read call 3 and the reconfiguration
\* call 6.  When another call on the container follows whose answer may
\* have changed by then, the run waits before it with the answers it got;
\* otherwise the handler returns, its resource data is stored and the
\* request the server accepted takes effect.
Advance(s, u, f) ==
    LET c == ContainerOf(u.op, u.d)
        k == IF u.k = 0 /\ Vanishing(c) THEN 2 ELSE 5
        o == IF u.k = 0 /\ Vanishing(c) THEN Answer(u.o, 1, c)
             ELSE IF u.k = 0 THEN Answers(c)
             ELSE IF u.k = 2 THEN Answer(u.o, 2, c)
             ELSE u.o
        r == Handler(u.op, u.d, f, o)
        more == u.k < 5 /\ Len(r.calls) > k
        stored == IF u.op \in {"EntityDelete", "OtherDelete"} THEN r.d ELSE Stored(r.d, NoEntity)
    IN  /\ f = 0 \/ (f > u.k /\ ~more)
        /\ IF more
           THEN /\ run' = [run EXCEPT ![s] = [u EXCEPT !.o = o, !.k = k]]
                /\ UNCHANGED <<inv, parent, vappName, vappCfg, entityConfig, nextVApp, de, other, dc, last>>
           ELSE /\ run' = [run EXCEPT ![s] = NoRun]
                /\ de' = IF s = "de" THEN stored ELSE de
                /\ other' = IF s = "other" THEN stored ELSE other
                /\ last' = Outcome(u.op, r)
                /\ entityConfig' = EntityEffect(c, r)
                /\ UNCHANGED <<inv, parent, vappName, vappCfg, nextVApp, dc>>

\* A handler's run at its start
Start(op, d) == [op |-> op, d |-> d, o |-> NoAnswers, k |-> 0]

\* The runs of Create that have not ended
Creating == {s \in {"de", "other"} : run[s].op \in {"EntityCreate", "OtherCreate"}}

\* The resource de names the first virtual machine, or the second vApp, as
\* its target; the second virtual machine is the target of the resource
\* other.  A configuration that sets an attribute is used in the second
\* container.  A fault is injected into a run on the first container with
\* the defaults; every other input runs without one.
CreateInputs ==
    {x \in ContainerIdInputs \X TargetIdInputs \X EntityCfgs \X (0..6) :
        /\ x[4] = 0 \/ (x[1] = VAppValue(1) /\ x[2] = UuidOf(<<"v">>) /\ x[3] = CfgOmitted)
        /\ x[2] # UuidOf(<<"w">>)
        /\ x[3] = CfgOmitted \/ x[2] = UuidOf(<<"v">>)
        /\ x[3] = CfgOmitted \/ x[1] = VAppValue(2)}

EntityCreate ==
    \/ /\ run.de = NoRun
       /\ TotalEntities + Cardinality(Creating) < MaxEntities
       /\ \E x \in CreateInputs : Advance("de", Start("EntityCreate", NewEntityData(x[1], x[2], x[3])), x[4])
    \/ /\ run.de.op = "EntityCreate"
       /\ \E x \in CreateInputs : NewEntityData(x[1], x[2], x[3]) = run.de.d /\ Advance("de", run.de, x[4])

\* A fault is injected into a Read or a Delete on the first container.
EntityRead ==
    \/ /\ run.de = NoRun
       /\ de.id # <<>>
       /\ \E f \in 0..3 : (f = 0 \/ de.container_id = VAppValue(1)) /\ Advance("de", Start("EntityRead", de), f)
    \/ /\ run.de.op = "EntityRead"
       /\ \E f \in 0..3 : (f = 0 \/ de.container_id = VAppValue(1)) /\ Advance("de", run.de, f)

\* An Update configures the custom values.
EntityUpdate ==
    \E cfg \in EntityCfgs, f \in 0..5 :
        LET d == WithCfg(de, cfg)
            r == resourceVSphereVAppEntityUpdate(d, f)
        IN  /\ run.de = NoRun
            /\ de.id # <<>>
            /\ d # de
            /\ cfg = CfgCustom
            /\ de' = r.d
            /\ last' = Outcome("EntityUpdate", r)
            /\ entityConfig' = EntityEffect(d.id, r)
            /\ UNCHANGED <<inv, parent, vappName, vappCfg, nextVApp, other, dc, run>>

EntityDelete ==
    \/ /\ run.de = NoRun
       /\ de.id # <<>>
       /\ \E f \in 0..6 : (f = 0 \/ de.container_id = VAppValue(1)) /\ Advance("de", Start("EntityDelete", de), f)
    \/ /\ run.de.op = "EntityDelete"
       /\ \E f \in 0..6 : (f = 0 \/ de.container_id = VAppValue(1)) /\ Advance("de", run.de, f)

EntityImport ==
    \E id \in {Sprintf(c, v) : c \in InitVApps, v \in VMValues} :
        LET r == resourceVSphereVAppEntityImport([de EXCEPT !.id = id])
        IN  /\ last' = Outcome("EntityImport", r)
            /\ UNCHANGED <<inv, parent, vappName, vappCfg, entityConfig, nextVApp, de, other, dc, run>>

\* Create of the other entity resource: the second virtual machine in the
\* first container, configured with the defaults.
OtherCreate ==
    \/ /\ run.other = NoRun
       /\ other.id = <<>>
       /\ TotalEntities + Cardinality(Creating) < MaxEntities
       /\ Advance("other", Start("OtherCreate", NewEntityData(VAppValue(1), UuidOf(<<"w">>), CfgOmitted)), 0)
    \/ /\ run.other.op = "OtherCreate"
       /\ Advance("other", run.other, 0)

\* Delete of the other entity resource
OtherDelete ==
    \/ /\ run.other = NoRun
       /\ other.id # <<>>
       /\ Advance("other", Start("OtherDelete", other), 0)
    \/ /\ run.other.op = "OtherDelete"
       /\ Advance("other", run.other, 0)

\* The second vApp is destroyed out of band, with what it holds.
EnvDestroy ==
    /\ VAppValue(2) \in inv
    /\ inv' = inv \ {o \in inv : IsUnder(o, VAppValue(2), Cardinality(AllValues))}
    /\ entityConfig' = [entityConfig EXCEPT ![VAppValue(2)] = <<>>]
    /\ last' = [op |-> "EnvDestroy", err |-> NoErr, calls |-> <<>>, sent |-> NoSpec]
    /\ UNCHANGED <<parent, vappName, vappCfg, nextVApp, de, other, dc, run>>

NextEntity == EntityCreate \/ EntityRead \/ EntityUpdate \/ EntityDelete \/ EntityImport \/ OtherCreate \/ OtherDelete \/ EnvDestroy

SpecEntity == Init /\ [][NextEntity]_vars

---------------------------------------------------------------------------
(* vsphere_vapp_container: the handlers as actions, and the inventory      *)
(* changing out of band                                                    *)

NoContainerStored(d) == IF d.id = <<>> THEN NoContainer ELSE d

\* The objects at or below va
Subtree(va) == {o \in inv : IsUnder(o, va, Cardinality(AllValues))}

OutcomeC(op, r) == [op |-> op, err |-> r.err, calls |-> r.calls, sent |-> r.sent, fx |-> r.fx]

\* The inventory after the requests the server accepted
ServerApply(fx) ==
    /\ inv' = IF fx.created # <<>> THEN inv \cup {fx.created[1].va}
              ELSE IF fx.destroyed # <<>> THEN inv \ Subtree(fx.destroyed[1])
              ELSE inv
    /\ parent' = IF fx.created # <<>> THEN [parent EXCEPT ![fx.created[1].va] = fx.created[1].parent]
                 ELSE IF fx.moved # <<>> THEN [parent EXCEPT ![fx.moved[1].va] = fx.moved[1].to]
                 ELSE parent
    /\ vappName' = IF fx.created # <<>> THEN [vappName EXCEPT ![fx.created[1].va] = fx.created[1].name] ELSE vappName
    /\ vappCfg' = IF fx.created # <<>> THEN [vappCfg EXCEPT ![fx.created[1].va] = fx.created[1].cfg] ELSE vappCfg
    /\ nextVApp' = IF fx.created # <<>> THEN nextVApp + 1 ELSE nextVApp
    /\ entityConfig' = IF fx.destroyed # <<>> THEN [c \in VAppValues |-> IF c \in Subtree(fx.destroyed[1]) THEN <<>> ELSE entityConfig[c]] ELSE entityConfig

\* Inputs of Create: configuration, parent pool, parent folder, tags, fault.
\* A fault is injected into the run that has tags and no parent folder.
ContainerCreateInputs ==
    {<<CfgB, <<"r">>, <<"f">>, FALSE, 0>>, <<CfgB, Dangling, <<"f">>, FALSE, 0>>}
    \cup {<<CfgB, <<"r">>, <<>>, TRUE, f>> : f \in 0..7}

ContainerCreate ==
    /\ run.dc = NoRunC
    /\ nextVApp <= MaxVApps
    /\ \E x \in ContainerCreateInputs :
        LET r == resourceVSphereVAppContainerCreate(NewContainerData(x[1], x[2], x[3], x[4]), VAppValue(nextVApp), x[5])
        IN  /\ dc' = NoContainerStored(r.d)
            /\ last' = OutcomeC("ContainerCreate", r)
            /\ ServerApply(r.fx)
            /\ UNCHANGED <<de, other, run>>

ContainerRead ==
    \E tc \in BOOLEAN, f \in 0..5 :
        LET r == resourceVSphereVAppContainerRead(dc, tc, f)
        IN  /\ run.dc = NoRunC
            /\ dc.id # <<>>
            /\ tc \/ f \in {0, 3}
            /\ dc' = NoContainerStored(r.d)
            /\ last' = OutcomeC("ContainerRead", r)
            /\ UNCHANGED <<inv, parent, vappName, vappCfg, entityConfig, nextVApp, de, other, run>>

\* Inputs of Update: configuration, new parent (<<>>: unchanged), tags,
\* fault.  A fault is injected into the run that changes everything and has tags.
ContainerUpdateInputs ==
    {<<CfgA, <<>>, FALSE, 0>>, <<CfgB, <<>>, TRUE, 0>>, <<CfgA, VAppValue(1), FALSE, 0>>}
    \cup {<<CfgB, VAppValue(1), TRUE, f>> : f \in 0..7}

ContainerUpdate ==
    /\ run.dc = NoRunC
    /\ dc.id # <<>>
    /\ \E x \in ContainerUpdateInputs :
        LET np == IF x[2] = <<>> THEN dc.parent_resource_pool_id ELSE x[2]
            f == x[4]
            d == [WithCfg(dc, x[1]) EXCEPT !.parent_resource_pool_id = np, !.tags = x[3]]
            r == resourceVSphereVAppContainerUpdate(d, dc.parent_resource_pool_id, f)
        IN  /\ d # dc
            /\ dc' = r.d
            /\ last' = OutcomeC("ContainerUpdate", r)
            /\ ServerApply(r.fx)
            /\ UNCHANGED <<de, other, run>>

\* Delete makes its lookup and its children check, and waits before the
\* Destroy with the answers it got: the inventory may change while it
\* does.  No step of the environment changes which vApps exist, so the
\* lookup answers the same whenever it is made.  f is the call a fault hits
\* (0: none).  A Destroy the server accepted has run to its end when
\* task.Wait returns no error; when task.Wait fails, the task has either
\* run to its end or not (done).
ContainerDelete ==
    \E f \in 0..5, done \in BOOLEAN :
        LET u == IF run.dc = NoRunC THEN [op |-> "ContainerDelete", d |-> dc, o |-> NoAnswersC, k |-> 0] ELSE run.dc
            o == IF u.k = 0 THEN AnswerC(AnswerC(u.o, 1, u.d.id, f), 2, u.d.id, f) ELSE u.o
            r == resourceVSphereVAppContainerDelete(u.d, f, o)
            more == u.k = 0 /\ Len(r.calls) > 3
            waitFailed == r.err # NoErr /\ r.fx # NoFx
            fx == IF waitFailed /\ ~done THEN NoFx ELSE r.fx
        IN  /\ dc.id # <<>>
            /\ f = 0 \/ (f > u.k /\ ~more)
            /\ done \/ (~more /\ waitFailed)
            /\ IF more
               THEN /\ run' = [run EXCEPT !.dc = [u EXCEPT !.o = o, !.k = 3]]
                    /\ UNCHANGED <<inv, parent, vappName, vappCfg, entityConfig, nextVApp, de, other, dc, last>>
               ELSE /\ run' = [run EXCEPT !.dc = NoRunC]
                    /\ dc' = r.d
                    /\ last' = OutcomeC("ContainerDelete", [r EXCEPT !.fx = fx])
                    /\ ServerApply(fx)
                    /\ UNCHANGED <<de, other>>

ContainerImport ==
    \E path \in {<<"x">>, <<"y">>, Dangling}, f \in 0..2 :
        LET r == resourceVSphereVAppContainerImport([NoContainer EXCEPT !.id = path], f)
        IN  /\ run.dc = NoRunC
            /\ path = <<"x">> \/ f = 0
            /\ dc' = IF r.res = <<>> THEN dc ELSE r.res[1]
            /\ last' = OutcomeC("ContainerImport", r) @@ [res |-> r.res]
            /\ UNCHANGED <<inv, parent, vappName, vappCfg, entityConfig, nextVApp, de, other, run>>

\* The first virtual machine is placed in the second vApp, or taken out of
\* a vApp.
EnvMove ==
    \E o \in {<<"v">>}, to \in {VAppValue(2), parent[VAppValue(1)]} :
        /\ to \in inv
        /\ o \in inv
        /\ parent[o] # to
        /\ ~IsUnder(to, o, Cardinality(AllValues))
        /\ parent' = [parent EXCEPT ![o] = to]
        /\ last' = [op |-> "EnvMove", err |-> NoErr, calls |-> <<>>, sent |-> NoSpec]
        /\ UNCHANGED <<inv, vappName, vappCfg, entityConfig, nextVApp, de, other, dc, run>>

NextContainer == ContainerCreate \/ ContainerRead \/ ContainerUpdate \/ ContainerDelete \/ ContainerImport \/ EnvMove

SpecContainer == Init /\ [][NextContainer]_vars

---------------------------------------------------------------------------
(* Properties *)

NoFault(calls) == \A i \in DOMAIN calls : calls[i].err # ErrFault

\* The objects whose parent is c
ChildrenOf(c) == {o \in inv : parent[o] = c}

\* The virtual machine a UUID belongs to
TargetOf(uuid) == CHOOSE v \in VMValues : UuidOf(v) = uuid

\* The step in which a run of the handler op of the resource de ends
Ends(op) == last'.op = op /\ run'.de = NoRun /\ run'.other = run.other

\* C1: a Delete never destroys a vApp container that has children: when the
\* children check reports a child, Delete returns an error, issues no
\* Destroy, and the container and what it holds exist as before; Delete goes
\* on to the Destroy only when the check answered without an error that
\* there is no child, and a Destroy is issued only after such an answer.
C1_DeleteSparesChildren ==
    [][/\ (run.dc = NoRunC /\ run'.dc # NoRunC) =>
            /\ run'.dc.op = "ContainerDelete"
            /\ run'.dc.o.Properties = NoErr
            /\ run'.dc.o.ValidateEmpty = NoErr
            /\ HasChildren(dc.id, 0, 1) = [ne |-> FALSE, err |-> NoErr]
       /\ (last'.op = "ContainerDelete" /\ run'.dc = NoRunC /\ dc.id # <<>>) =>
            /\ last'.err = ErrChildren =>
                  (~Issued(last'.calls, "Destroy") /\ inv' = inv /\ parent' = parent)
            /\ (run.dc = NoRunC /\ Len(last'.calls) >= 3 /\ NoFault(last'.calls) /\ HasChildren(dc.id, 0, 1).ne) =>
                  last'.err = ErrChildren
            /\ Issued(last'.calls, "Destroy") =>
                  /\ run.dc # NoRunC
                  /\ \E i \in DOMAIN last'.calls : last'.calls[i] = Call("Properties", NoErr) /\ last'.calls[i + 1].step = "Destroy"]_vars

C1_Witness ==
    /\ last.op = "ContainerDelete"
    /\ last.err = ErrChildren
    /\ ~Issued(last.calls, "Destroy")
    /\ dc.id \in inv
    /\ ChildrenOf(dc.id) \cap VMValues # {}

\* C4: HasChildren answers true exactly when some virtual machine, vApp or
\* resource pool has the container as its parent, and answers false with
\* the error when the property read fails.
C4_HasChildrenExact ==
    \A c \in inv \cap VAppValues :
        /\ HasChildren(c, 0, 1) = [ne |-> ChildrenOf(c) # {}, err |-> NoErr]
        /\ HasChildren(c, 1, 1) = [ne |-> FALSE, err |-> ErrFault]

C4_Witness ==
    /\ last.op = "ContainerDelete"
    /\ last.err = ErrChildren
    /\ ChildrenOf(dc.id) # {}
    /\ ChildrenOf(dc.id) \cap VMValues = {}
    /\ \E c \in inv \cap VAppValues : ChildrenOf(c) = {}

\* C5: EntityFromKey returns the first entry of the list whose key value is
\* the key, nil exactly when no entry has it, and never an entry with
\* another key value.
C5_EntityFromKeyFirstMatch ==
    \A c \in inv \cap VAppValues : \A key \in VMValues \cup {Dangling} :
        LET ec == entityConfig[c]
            hits == {i \in DOMAIN ec : ec[i].Key.Value = key}
            got == EntityFromKey(key, VAppProps(c))
        IN  /\ (got = <<>>) <=> (hits = {})
            /\ hits # {} => got = <<ec[CHOOSE i \in hits : \A j \in hits : i <= j]>>
            /\ got # <<>> => got[1].Key.Value = key

C5_Witness ==
    /\ last.op = "EntityRead"
    /\ last.err = NoErr
    /\ de.id # <<>>
    /\ \E c \in inv \cap VAppValues :
        /\ de.container_id = c
        /\ Len(entityConfig[c]) >= 2
        /\ entityConfig[c][1].Key = entityConfig[c][2].Key
        /\ entityConfig[c][1] # entityConfig[c][2]
        /\ entityConfig[c][1].Key.Value = TargetOf(de.target_id)

\* C2: after a Create that succeeded, the container's EntityConfig holds an
\* entry keyed by the target's reference, and a Read that follows finds an
\* entry with that key and leaves the resource ID set.
C2_CreatedEntityExists ==
    (last.op = "EntityCreate" /\ last.err = NoErr) =>
        LET mor == Ref(TargetOf(de.target_id))
            ec == entityConfig[de.container_id]
            found == resourceVSphereVAppEntityFind(de, 0, 2, Answers(de.container_id))
            read == resourceVSphereVAppEntityRead(de, 0, Answers(de.container_id))
        IN  /\ \E i \in DOMAIN ec : ec[i].Key = mor
            /\ found.err = NoErr /\ found.entity # <<>> /\ found.entity[1].Key = mor
            /\ read.err = NoErr /\ read.d.id = de.id /\ read.d.id # <<>>

C2_Witness ==
    /\ last.op = "EntityCreate"
    /\ last.err = NoErr
    /\ parent[TargetOf(de.target_id)] = de.container_id
    /\ Len(entityConfig[de.container_id]) = 2
    /\ entityConfig[de.container_id][2].Key = Ref(TargetOf(de.target_id))
    /\ entityConfig[de.container_id][1].Key # entityConfig[de.container_id][2].Key

\* C3: a Read after a Create that succeeded writes back the six configured
\* values and leaves target_id and container_id as they were.
C3_RoundTripNoDrift ==
    (last.op = "EntityCreate" /\ last.err = NoErr) =>
        LET read == resourceVSphereVAppEntityRead(de, 0, Answers(de.container_id))
        IN  /\ read.err = NoErr
            /\ \A k \in EntityAttrs : Get(read.d, k) = Get(de, k)
            /\ read.d.target_id = de.target_id
            /\ read.d.container_id = de.container_id

\* A remote step that fails is the last one issued, and its error is what
\* the handler returns.
Propagates(r) == \A i \in DOMAIN r.calls : r.calls[i].err # NoErr => (i = Len(r.calls) /\ r.err = r.calls[i].err)

\* The same, but for the three places where the handler does not return the
\* error as it is: Delete wraps the error of the children check in a message;
\* the container's Read takes a vApp that is not found for a deleted one,
\* clears the resource ID and returns no error; and the container's Read
\* discards the error of the tags client, skips the tag read and goes on
\* with the property read.
PropagatesOrHandles(op, r) ==
    \A i \in DOMAIN r.calls : r.calls[i].err # NoErr =>
        \/ /\ i = Len(r.calls)
           /\ \/ r.err = r.calls[i].err
              \/ op = "ContainerDelete" /\ r.calls[i].step = "Properties" /\ r.err = Errorf(r.calls[i].err)
              \/ op = "ContainerRead" /\ r.calls[i] = Call("FromID", ErrNotFound) /\ r.err = NoErr /\ r.d.id = <<>>
        \/ /\ op = "ContainerRead"
           /\ r.calls[i].step = "TagsClient"
           /\ i < Len(r.calls)
           /\ r.calls[i + 1].step = "Properties"
           /\ r.err # r.calls[i].err

ContainerOps == {"ContainerCreate", "ContainerRead", "ContainerUpdate", "ContainerDelete", "ContainerImport"}

\* The inputs of the entity handlers' runs: every container and target
\* without a fault, and a fault at each remote step for the container and
\* target whose run passes every step.
EntityRunInputs ==
    {<<cid, tid, 0>> : cid \in ContainerIdInputs, tid \in {UuidOf(<<"v">>), VAppValue(2)}}
        \cup {<<VAppValue(1), UuidOf(<<"v">>), f>> : f \in 1..6}

\* Runs of the entity handlers on the inventory as it is, with and without
\* an injected fault.
EntityRunsAll(P(_)) ==
    \A x \in EntityRunInputs :
        LET d0 == NewEntityData(x[1], x[2], CfgCustom)
            d1 == [d0 EXCEPT !.id = Sprintf(x[1], <<"v">>)]
            d2 == [d0 EXCEPT !.id = x[1]]
            f == x[3]
        IN  /\ P(resourceVSphereVAppEntityCreate(d0, f, Answers(x[1])))
            /\ P(resourceVSphereVAppEntityRead(d1, f, Answers(x[1])))
            /\ P(resourceVSphereVAppEntityUpdate(d1, f))
            /\ P(resourceVSphereVAppEntityUpdate(d2, f))
            /\ P(resourceVSphereVAppEntityDelete(d1, f, Answers(x[1])))
            /\ P(resourceVSphereVAppEntityImport(d1))

\* C6 as stated: in every handler a failed remote step is the last step
\* issued and the handler returns that step's error.
C6_PropagatesUnderlyingError ==
    /\ last.op \in ContainerOps => Propagates(last)
    /\ EntityRunsAll(Propagates)

\* C6 as amended: the same, except that Delete returns the error of the
\* children check wrapped in a message, the container's Read turns a vApp
\* that is not found into a cleared resource ID and no error, and the
\* container's Read discards the error of the tags client and goes on.
C6_PropagatesOrHandles ==
    /\ last.op \in ContainerOps => PropagatesOrHandles(last.op, [calls |-> last.calls, err |-> last.err, d |-> dc])
    /\ EntityRunsAll(Propagates)

C6_Witness ==
    /\ last.op = "ContainerRead"
    /\ last.calls[Len(last.calls)] = Call("FromID", ErrNotFound)
    /\ last.err = NoErr
    /\ dc.id = <<>>

\* C7: Create and Delete succeed for a target that is a virtual machine and
\* for a target that is a vApp lying in the container.
C7_TargetVMOrVApp ==
    \A c \in inv \cap VAppValues :
        \A t \in {UuidOf(v) : v \in inv \cap VMValues} \cup {a \in inv \cap VAppValues : parent[a] = c} :
            /\ resourceVSphereVAppEntityCreate(NewEntityData(c, t, CfgOmitted), 0, Answers(c)).err = NoErr
            /\ resourceVSphereVAppEntityDelete(NewEntityData(c, t, CfgOmitted), 0, Answers(c)).err = NoErr

\* C8: after an Update of a vApp container that returned no error, the
\* remote vApp has the configured name and resource configuration.
C8_ContainerUpdateApplies ==
    (last.op = "ContainerUpdate" /\ last.err = NoErr) =>
        /\ vappName[dc.id] = dc.name
        /\ vappCfg[dc.id] = expandVAppContainerConfigSpec(dc)

\* C9: an Update of an entity that Create made (ID container:target), run
\* without a fault, returns no error and leaves the target's entry of the
\* container with the new values.
C9_EntityUpdateApplies ==
    (/\ last.op = "EntityUpdate"
     /\ NoFault(last.calls)
     /\ de.container_id \in inv
     /\ de.id = Sprintf(de.container_id, TargetOf(de.target_id))) =>
        /\ last.err = NoErr
        /\ \E i \in DOMAIN entityConfig[de.container_id] :
            LET e == entityConfig[de.container_id][i]
            IN  /\ e.Key = Ref(TargetOf(de.target_id))
                /\ e.StartOrder = ToInt32(Get(de, "start_order"))
                /\ e.StartAction = Get(de, "start_action")
                /\ e.StartDelay = ToInt32(Get(de, "start_delay"))
                /\ e.StopAction = Get(de, "stop_action")
                /\ e.StopDelay = ToInt32(Get(de, "stop_delay"))
                /\ e.WaitingForGuest = <<Get(de, "wait_for_guest")>>

\* C10: the entry Create submits has the target's reference as its key and
\* the six attributes as its values, an omitted attribute counting as its
\* schema default.
C10_SubmittedEntryEqualsAttributes ==
    (last.op = "EntityCreate" /\ last.sent # NoSpec) =>
        LET ec == last.sent[1].EntityConfig
            e == ec[Len(ec)]
            attr(k, default) == IF de[k] = <<>> THEN default ELSE de[k][1]
        IN  /\ e.Key = Ref(TargetOf(de.target_id))
            /\ FromInt32(e.StartOrder) = attr("start_order", I64(0, 1))
            /\ e.StartAction = attr("start_action", "powerOn")
            /\ FromInt32(e.StartDelay) = attr("start_delay", I64(0, 0))
            /\ e.StopAction = attr("stop_action", "powerOff")
            /\ FromInt32(e.StopDelay) = attr("stop_delay", I64(0, 0))
            /\ e.WaitingForGuest = <<attr("wait_for_guest", FALSE)>>

\* C11: in a Read of a vApp container, a lookup that fails with
\* managed-object-not-found clears the resource ID and Read returns no error;
\* a lookup that fails with another error is returned with the ID as it was;
\* after a lookup that succeeds the ID is as it was.
C11_ReadVanishedVApp ==
    [][(last'.op = "ContainerRead" /\ Len(last'.calls) >= 2) =>
          LET lookup == last'.calls[2]
          IN  /\ lookup.step = "FromID"
              /\ lookup.err = ErrNotFound => (dc'.id = <<>> /\ last'.err = NoErr /\ dc.id \notin inv)
              /\ lookup.err \notin {NoErr, ErrNotFound} => (last'.err = lookup.err /\ dc'.id = dc.id)
              /\ lookup.err = NoErr => (dc'.id = dc.id /\ dc.id \in inv)]_vars

C11_Witness ==
    /\ last.op = "ContainerRead"
    /\ Len(last.calls) = 2
    /\ last.calls[2].err = ErrNotFound
    /\ dc = NoContainer
    /\ nextVApp > Cardinality(InitVApps) + 1

\* C12: a Read of an entity clears the resource ID and returns no error
\* exactly when the container the ID names was found and read and none of
\* its entries has the key the ID names; when the lookup or the property
\* read of the container fails, Read returns that error and the ID is as it
\* was.
C12_EntityReadClearsID ==
    [][(Ends("EntityRead") /\ de.id # <<>>) =>
          LET parts == SplitN2(de.id, ":")
              ec == entityConfig[parts[1]]
              calls == last'.calls
              found == Len(calls) = 3 /\ calls[2] = Call("FromID", NoErr) /\ calls[3] = Call("Properties", NoErr)
              hasKey == \E i \in DOMAIN ec : ec[i].Key.Value = parts[2]
          IN  /\ (de'.id = <<>> /\ last'.err = NoErr) <=> (found /\ parts[1] \in inv /\ ~hasKey)
              /\ \A i \in 2..Len(calls) : calls[i].err # NoErr => (last'.err = calls[i].err /\ de'.id = de.id)
              /\ parts[1] \notin inv /\ NoFault(calls) => (last'.err = ErrNotFound /\ de'.id = de.id)]_vars

C12_Witness ==
    /\ last.op = "EntityRead"
    /\ last.err = NoErr
    /\ last.calls[Len(last.calls)] = Call("Properties", NoErr)
    /\ de = NoEntity

\* C13: the list a Delete of an entity submits is the list the container
\* holds when it is submitted without the entries whose key is the
\* target's reference, the other entries unchanged and in their order;
\* Delete issues no Destroy.
C13_DeleteRemovesOnlyTarget ==
    [][(Ends("EntityDelete") /\ de.id # <<>>) =>
          /\ ~Issued(last'.calls, "Destroy")
          /\ (last'.err = NoErr /\ last'.sent # NoSpec) =>
                LET cur == entityConfig[de.container_id]
                    sub == last'.sent[1].EntityConfig
                    vmo == Ref(TargetOf(de.target_id))
                    kept(j) == {k \in 1..j : cur[k].Key # vmo}
                IN  /\ Len(sub) = Cardinality(kept(Len(cur)))
                    /\ \A i \in DOMAIN sub : sub[i].Key # vmo
                    /\ \A j \in kept(Len(cur)) : sub[Cardinality(kept(j))] = cur[j]]_vars

\* C14: the list a Create of an entity submits is the list it read from
\* the container, which is the list the container held when it was read,
\* with one entry, the target's, appended at the end; the entries read are
\* submitted unchanged and at their positions.
C14_CreateAppendsOne ==
    [][/\ (run'.de.op = "EntityCreate" /\ run'.de.k = 5 /\ run.de.k < 5) =>
             run'.de.o.mo.VAppConfig.EntityConfig = entityConfig[run'.de.d.container_id]
       /\ (run.de.op = "EntityCreate" /\ run.de.k = 5 /\ Ends("EntityCreate")) =>
             LET read == run.de.o.mo.VAppConfig.EntityConfig
                 sub == last'.sent[1].EntityConfig
             IN  /\ last'.sent # NoSpec
                 /\ Len(sub) = Len(read) + 1
                 /\ \A i \in DOMAIN read : sub[i] = read[i]
                 /\ sub[Len(sub)].Key = Ref(TargetOf(run.de.d.target_id))]_vars

\* A Create added an entry behind one that differs from it.
C14_Witness ==
    /\ last.op = "EntityCreate"
    /\ last.err = NoErr
    /\ last.sent # NoSpec
    /\ Len(last.sent[1].EntityConfig) = 2
    /\ entityConfig[de.container_id] = last.sent[1].EntityConfig
    /\ last.sent[1].EntityConfig[1] # last.sent[1].EntityConfig[2]

\* C15: every list a Create or a Delete of an entity submits holds at most
\* one entry for a key.
C15_OneEntryPerKey ==
    (last.op \in {"EntityCreate", "EntityDelete"} /\ last.sent # NoSpec) =>
        LET sub == last.sent[1].EntityConfig
        IN  \A i, j \in DOMAIN sub : sub[i].Key = sub[j].Key => i = j

\* Resource IDs Find can be given: the IDs Create writes.
FindIdInputs == {Sprintf(c, t) : c \in VAppValues \cup {Dangling}, t \in VMValues}

\* C16: Create sets the ID to the container's reference value, a colon and
\* the target's reference value, and a resource has no other ID; splitting
\* that ID at the first colon gives the container's value and the target's
\* value back; Find, given that ID, looks up that container and returns the
\* entry the container's list holds for that target key; and Find ends with
\* a result or an error, not a fault, for every ID it is given.
C16_IDRoundTrip ==
    /\ (last.op = "EntityCreate" /\ last.err = NoErr) => de.id = Sprintf(de.container_id, TargetOf(de.target_id))
    /\ \A d \in {de, other} : d.id # <<>> => d.id \in FindIdInputs
    /\ \A c \in VAppValues \cup {Dangling}, t \in VMValues \cup {<<"v", ":", "w">>} :
        SplitN2(Sprintf(c, t), ":") = <<c, t>>
    /\ \A c \in VAppValues \cup {Dangling}, t \in VMValues, f \in 0..2 :
        LET r == resourceVSphereVAppEntityFind([NoEntity EXCEPT !.id = Sprintf(c, t)], f, 1, Answers(c))
        IN  /\ r.err # ErrPanic
            /\ r.calls[1].step = "FromID"
            /\ (f = 1 \/ (f = 2 /\ c \in inv)) => (r.err = ErrFault /\ r.entity = <<>>)
            /\ (f = 0 /\ c \in inv) => (r.err = NoErr /\ r.entity = EntityFromKey(t, VAppProps(c)))
            /\ (f # 1 /\ c \notin inv) => (r.err = FromID(c, 0, 1) /\ r.err # NoErr /\ r.entity = <<>>)

C16_Witness ==
    /\ last.op = "EntityRead"
    /\ last.err = NoErr
    /\ de.id = Sprintf(de.container_id, TargetOf(de.target_id))
    /\ de.container_id \in inv
    /\ EntityFromKey(TargetOf(de.target_id), VAppProps(de.container_id)) # <<>>
    /\ Len(entityConfig[de.container_id]) = 1

\* Import of a vApp container by a path that names one vApp returns one
\* resource whose ID is the vApp's reference value; by a path that names no
\* vApp it returns an error and no resource and leaves the ID as it was.
ContainerImportResolves ==
    \A path \in {<<"x">>, <<"y">>, Dangling} :
        LET r == resourceVSphereVAppContainerImport([NoContainer EXCEPT !.id = path], 0)
            found == {c \in inv \cap VAppValues : vappName[c] = path}
        IN  /\ Cardinality(found) = 1 => (r.err = NoErr /\ Len(r.res) = 1 /\ {r.res[1].id} = found)
            /\ found = {} => (r.err # NoErr /\ r.res = <<>> /\ r.d.id = path)

\* C17: Import of a vApp container resolves a path as above, and Import of
\* an entity by the ID of an existing membership returns that one resource.
C17_ImportResolves ==
    /\ ContainerImportResolves
    /\ \A c \in inv \cap VAppValues : \A i \in DOMAIN entityConfig[c] :
        LET id == Sprintf(c, entityConfig[c][i].Key.Value)
            r == resourceVSphereVAppEntityImport([NoEntity EXCEPT !.id = id])
        IN  r.err = NoErr /\ Len(r.res) = 1 /\ r.res[1].id = id

====
